---- MODULE Spec2Model ----
(***************************************************************************)
(* Model of postgres.py: the Postgres facade, its connection pool and the  *)
(* three context managers (cursor, transaction, raw connection).           *)
(*                                                                         *)
(* The pool is psycopg2's ThreadedConnectionPool (postgres.py line 70),    *)
(* modelled by its interface as the managers use it: getconn() hands out a *)
(* connection that is not checked out and raises PoolError when all        *)
(* maxconn connections are checked out; putconn(conn) takes it back.       *)
(* getconn and putconn run under the pool's lock; everything else a        *)
(* manager does between them touches only the connection it holds, so one  *)
(* action per __enter__ / __exit__ loses no interleaving.                  *)
(*                                                                         *)
(* A statement with an effect is a token <<caller, index>>: index 0 is     *)
(* the statement a cursor manager executes on entry, 1.. are statements    *)
(* the caller issues in the body.  db is the committed database state,     *)
(* pending[c] the uncommitted work of the transaction open on c.           *)
(***************************************************************************)
EXTENDS Integers, Sequences, FiniteSets, TLC

\* ---------------------------------------------------------------- bounds
NumCallers == 2
MaxStmts == 1
MaxRows == 2

\* maxconn as passed to Postgres(url, minconn, maxconn)
maxconn == 1

Callers == 1..NumCallers
Tokens == Callers \X (0..MaxStmts)
None == 0

CursorKinds == {"get_cursor", "execute", "fetchone", "fetchall"}
Kinds == CursorKinds \cup {"get_transaction", "get_connection"}
FetchKinds == {"fetchone", "fetchall"}

\* the result rows of a statement, in order: rows 1..n
ResultSets == {[i \in 1..n |-> i] : n \in 0..MaxRows}

\* pool, used: the pool's list of available connections and its set of
\* checked-out <<scope, connection>> pairs; autocommit, pending: per
\* connection; db: committed statements.  Per caller: pc, kind, conn (the
\* manager's self.conn), issued, committed, steps (what the manager did,
\* in order), result / exc / fault (how the call ended), retried (this call
\* repeats one the pool turned away), rows (rows still on the cursor),
\* ret (what the caller has received).  ctor: the constructor call.
VARIABLES pool, used, autocommit, pending, db,
          pc, kind, conn, issued, committed,
          steps, result, exc, fault, retried,
          rows, ret, ctor

vars == <<pool, used, autocommit, pending, db,
          pc, kind, conn, issued, committed,
          steps, result, exc, fault, retried,
          rows, ret, ctor>>

\* ---------------------------------------------------------------- pool
\* maxconn handed to the pool by Postgres.__init__
PoolMaxconnPlusOne == maxconn + 1
PoolMaxconn == maxconn

PoolConns == 1..PoolMaxconn

\* pool.getconn() when a connection is free: the pool pops c off its list
\* of idle connections and records it as checked out under the key of the
\* calling scope
PoolTop == pool[Len(pool)]
GetconnPool(pl, c) == SubSeq(pl, 1, Len(pl) - 1)
GetconnUsed(us, s, c) == us \cup {<<s, c>>}

\* pool.putconn(conn)
PutconnPool(pl, c) == Append(pl, c)
PutconnUsed(us, c) == {u \in us : u[2] # c}

\* pool.getconn() raises PoolError: every connection is checked out
PoolExhausted == pool = <<>>

Idle == {pool[i] : i \in 1..Len(pool)}

CheckedOut == {u[2] : u \in used}

\* ---------------------------------------------------------------- driver
\* cursor.execute of a statement with effect t on connection c: with
\* autocommit on it is committed at once, otherwise it joins the open
\* transaction
ExecuteDb(c, t) == IF autocommit[c] THEN db \cup {t} ELSE db
ExecutePending(c, t) ==
    IF autocommit[c] THEN pending ELSE [pending EXCEPT ![c] = @ \cup {t}]

\* conn.commit() / conn.rollback(); a commit or rollback that raises leaves
\* nothing of the transaction behind (the server aborts it)
CommitDb(c) == db \cup pending[c]
EndTransaction(c) == [pending EXCEPT ![c] = {}]

\* conn.autocommit = v
SetAutocommit(c, v) == [autocommit EXCEPT ![c] = v]

Log(p, entries) == [steps EXCEPT ![p] = @ \o entries]

\* ---------------------------------------------------------------- construction
\* bound on the minconn and maxconn given to Postgres(url, minconn, maxconn)
MaxPoolArg == 2

\* Python's None where a string may stand
PyNone == "<None>"

\* A connection string is the sequence of its tokens: the parts and the
\* separators between them.
Users == {PyNone, "jdoe"}
Passwords == {PyNone, "secret"}
Hosts == {"localhost", "DB.Example"}
Ports == {PyNone, "5433"}
Dbnames == {"testdb"}

UrlParts ==
    {g \in [user : Users, password : Passwords, host : Hosts,
            port : Ports, dbname : Dbnames] :
        g.user = PyNone => g.password = PyNone}

\* postgres://[user[:password]@]host[:port]/dbname
MakeUrl(g) ==
    <<"postgres://">>
    \o (IF g.user = PyNone THEN <<>>
        ELSE <<g.user>>
             \o (IF g.password = PyNone THEN <<>> ELSE <<":", g.password>>)
             \o <<"@">>)
    \o <<g.host>>
    \o (IF g.port = PyNone THEN <<>> ELSE <<":", g.port>>)
    \o <<"/", g.dbname>>

\* the same parts as a key=value connection string
MakeDsn(g) ==
    <<"dbname=", g.dbname>>
    \o (IF g.user = PyNone THEN <<>> ELSE <<" ", "user=", g.user>>)
    \o (IF g.password = PyNone THEN <<>> ELSE <<" ", "password=", g.password>>)
    \o <<" ", "host=", g.host>>
    \o (IF g.port = PyNone THEN <<>> ELSE <<" ", "port=", g.port>>)

IndexOf(s, t) ==
    IF \E i \in DOMAIN s : s[i] = t
    THEN CHOOSE i \in DOMAIN s : s[i] = t /\ \A j \in 1..(i - 1) : s[j] # t
    ELSE 0

After(s, i) == SubSeq(s, i + 1, Len(s))
Before(s, i) == SubSeq(s, 1, i - 1)

\* url.startswith("postgres://")
StartsWith(url, prefix) == url # <<>> /\ url[1] = prefix

\* urlparse.urlparse(url): the netloc runs from the scheme to the first
\* "/", the path from that "/" on
UrlNetloc(url) ==
    LET r == Tail(url) IN
    IF IndexOf(r, "/") = 0 THEN r ELSE Before(r, IndexOf(r, "/"))

UrlPath(url) ==
    LET r == Tail(url) IN
    IF IndexOf(r, "/") = 0 THEN <<>> ELSE After(r, IndexOf(r, "/") - 1)

\* the netloc is user[:password]@host[:port]; without "@" it has no user
\* part
UrlUserinfo(url) ==
    LET n == UrlNetloc(url) IN
    IF IndexOf(n, "@") = 0 THEN <<>> ELSE Before(n, IndexOf(n, "@"))

UrlHostinfo(url) == After(UrlNetloc(url), IndexOf(UrlNetloc(url), "@"))

\* parsed.username, parsed.password: None when the URL has none
UrlUsername(url) ==
    IF UrlUserinfo(url) = <<>> THEN PyNone ELSE UrlUserinfo(url)[1]

UrlPassword(url) ==
    LET u == UrlUserinfo(url) IN
    IF IndexOf(u, ":") = 0 THEN PyNone ELSE u[IndexOf(u, ":") + 1]

\* parsed.hostname is the host in lower case
Lower(h) == IF h = "DB.Example" THEN "db.example" ELSE h

UrlHostname(url) ==
    IF UrlHostinfo(url) = <<>> THEN PyNone ELSE Lower(UrlHostinfo(url)[1])

\* parsed.port: None when the URL has none
UrlPort(url) ==
    LET h == UrlHostinfo(url) IN
    IF IndexOf(h, ":") = 0 THEN PyNone ELSE h[IndexOf(h, ":") + 1]

\* "%s" % v: a None is written as the text None
Fmt(v) == IF v = PyNone THEN "None" ELSE v

\* url_to_dsn(url)
url_to_dsn(url) ==
    LET path == UrlPath(url)
        dbname == IF Len(path) < 2 THEN "" ELSE path[2]
        user == UrlUsername(url)
        password == UrlPassword(url)
        host == UrlHostname(url)
        port == IF UrlPort(url) = PyNone THEN "5432" ELSE UrlPort(url)
    IN  <<"dbname=", Fmt(dbname), " ", "user=", Fmt(user), " ",
          "password=", Fmt(password), " ", "host=", Fmt(host), " ",
          "port=", Fmt(port)>>

\* the connection string as libpq reads it: the value of a key, if the key
\* is there
DsnHas(dsn, key) == IndexOf(dsn, key) # 0
DsnGet(dsn, key) == dsn[IndexOf(dsn, key) + 1]

\* ConnectionPool(minconn, maxconn, dsn=dsn, ...): the pool opens minconn
\* connections and does not compare minconn with maxconn
PoolOpened(mn) == [i \in 1..mn |-> i]

\* what Postgres(url, minconn, maxconn) is given: a postgres:// URL or a
\* key=value connection string, the two pool sizes, and whether the server
\* can be reached
CtorArgs ==
    [phase : {"args"},
     given : UrlParts,
     url : {MakeUrl(g) : g \in UrlParts} \cup {MakeDsn(g) : g \in UrlParts},
     minconn : 0..MaxPoolArg,
     maxconn : 0..MaxPoolArg,
     reachable : BOOLEAN,
     dsn : {<<>>},
     error : {"none"}]

\* the facade the callers of this model share: built from the URL
\* postgres://jdoe@localhost/testdb with minconn = maxconn
FacadeParts ==
    [user |-> "jdoe", password |-> PyNone, host |-> "localhost",
     port |-> PyNone, dbname |-> "testdb"]

Facade ==
    [phase |-> "built", given |-> FacadeParts, url |-> MakeUrl(FacadeParts),
     minconn |-> maxconn, maxconn |-> maxconn, reachable |-> TRUE,
     dsn |-> url_to_dsn(MakeUrl(FacadeParts)), error |-> "none"]

\* ---------------------------------------------------------------- init
\* Postgres.__init__ builds the pool; PostgresConnection.__init__ turns
\* autocommit on for every connection the pool creates
Init ==
    /\ pool = [i \in 1..PoolMaxconn |-> i]
    /\ used = {}
    /\ autocommit = [c \in PoolConns |-> TRUE]
    /\ pending = [c \in PoolConns |-> {}]
    /\ db = {}
    /\ pc = [p \in Callers |-> "idle"]
    /\ kind = [p \in Callers |-> "none"]
    /\ conn = [p \in Callers |-> None]
    /\ issued = [p \in Callers |-> {}]
    /\ committed = [p \in Callers |-> {}]
    /\ steps = [p \in Callers |-> <<>>]
    /\ result = [p \in Callers |-> "none"]
    /\ exc = [p \in Callers |-> "none"]
    /\ fault = [p \in Callers |-> "none"]
    /\ retried = [p \in Callers |-> FALSE]
    /\ rows = [p \in Callers |-> <<>>]
    /\ ret = [p \in Callers |-> <<>>]
    /\ ctor = Facade

\* before Postgres(url, minconn, maxconn) is called: no pool yet
CtorInit ==
    /\ ctor \in {a \in CtorArgs :
                    a.url \in {MakeUrl(a.given), MakeDsn(a.given)}}
    /\ pool = <<>>
    /\ used = {}
    /\ autocommit = <<>>
    /\ pending = <<>>
    /\ db = {}
    /\ pc = [p \in Callers |-> "idle"]
    /\ kind = [p \in Callers |-> "none"]
    /\ conn = [p \in Callers |-> None]
    /\ issued = [p \in Callers |-> {}]
    /\ committed = [p \in Callers |-> {}]
    /\ steps = [p \in Callers |-> <<>>]
    /\ result = [p \in Callers |-> "none"]
    /\ exc = [p \in Callers |-> "none"]
    /\ fault = [p \in Callers |-> "none"]
    /\ retried = [p \in Callers |-> FALSE]
    /\ rows = [p \in Callers |-> <<>>]
    /\ ret = [p \in Callers |-> <<>>]

\* Postgres.__init__(url, minconn, maxconn): dsn is assigned only under the
\* if; for any other url the name dsn is unbound where the pool is built
\* and the constructor raises UnboundLocalError.  The pool opens minconn
\* connections, each with autocommit on (PostgresConnection.__init__), and
\* raises OperationalError when it cannot open one.
Construct ==
    /\ ctor.phase = "args"
    /\ IF StartsWith(ctor.url, "postgres://")
       THEN IF ctor.minconn > 0 /\ ~ctor.reachable
            THEN /\ ctor' = [ctor EXCEPT !.phase = "raised",
                                         !.dsn = url_to_dsn(ctor.url),
                                         !.error = "OperationalError"]
                 /\ UNCHANGED <<pool, autocommit, pending>>
            ELSE /\ ctor' = [ctor EXCEPT !.phase = "built",
                                         !.dsn = url_to_dsn(ctor.url)]
                 /\ pool' = PoolOpened(ctor.minconn)
                 /\ autocommit' = [c \in 1..ctor.minconn |-> TRUE]
                 /\ pending' = [c \in 1..ctor.minconn |-> {}]
       ELSE /\ ctor' = [ctor EXCEPT !.phase = "raised",
                                    !.error = "UnboundLocalError"]
            /\ UNCHANGED <<pool, autocommit, pending>>
    /\ UNCHANGED <<used, db, pc, kind, conn, issued, committed, steps,
                   result, exc, fault, retried, rows, ret>>

CtorNext == Construct

CtorSpec == CtorInit /\ [][CtorNext]_vars

\* ---------------------------------------------------------------- facade
\* get_cursor / get_transaction / get_connection (and execute, fetchone,
\* fetchall, which build a cursor manager): a new manager, conn = None.
\* Each caller opens one scope, and makes its call again when the pool
\* turned it away.  Callers are numbered by the call they make: a caller
\* with a lower number makes a call that comes no later in KindOrder.
KindOrder == <<"get_cursor", "execute", "fetchone", "fetchall",
               "get_transaction", "get_connection">>
KindIx(k) == CHOOSE i \in DOMAIN KindOrder : KindOrder[i] = k

Call(p, k) ==
    /\ \/ /\ pc[p] = "idle"
          /\ \A q \in Callers :
                kind[q] # "none" =>
                    IF q < p THEN KindIx(kind[q]) <= KindIx(k)
                             ELSE KindIx(k) <= KindIx(kind[q])
       \/ pc[p] = "done" /\ exc[p] = "PoolError" /\ k = kind[p]
    /\ kind' = [kind EXCEPT ![p] = k]
    /\ pc' = [pc EXCEPT ![p] = "created"]
    /\ conn' = [conn EXCEPT ![p] = None]
    /\ issued' = [issued EXCEPT ![p] = {}]
    /\ committed' = [committed EXCEPT ![p] = {}]
    /\ steps' = [steps EXCEPT ![p] = <<>>]
    /\ result' = [result EXCEPT ![p] = "none"]
    /\ exc' = [exc EXCEPT ![p] = "none"]
    /\ fault' = [fault EXCEPT ![p] = "none"]
    /\ retried' = [retried EXCEPT ![p] = (pc[p] = "done")]
    /\ UNCHANGED <<pool, used, autocommit, pending, db, rows, ret, ctor>>

\* the error of getconn swallowed: the call returns as if it had worked
GetconnRaisedSwallowed(p) ==
    /\ pc' = [pc EXCEPT ![p] = "done"]
    /\ result' = [result EXCEPT ![p] = "returned"]
    /\ steps' = Log(p, <<<<"getconn_raised", None>>>>)
    /\ UNCHANGED <<pool, used, autocommit, pending, db, kind, conn, issued,
                   committed, exc, fault, retried, rows, ret, ctor>>

\* an entry that answers the error of getconn with its own __exit__
GetconnRaisedThenExit(p) ==
    /\ pc' = [pc EXCEPT ![p] = "done"]
    /\ result' = [result EXCEPT ![p] = "raised"]
    /\ exc' = [exc EXCEPT ![p] = "PoolError"]
    /\ pool' = PutconnPool(pool, conn[p])
    /\ used' = PutconnUsed(used, conn[p])
    /\ steps' = Log(p, <<<<"getconn_raised", None>>, <<"putconn", conn[p]>>>>)
    /\ UNCHANGED <<autocommit, pending, db, kind, conn, issued,
                   committed, fault, retried, rows, ret, ctor>>

\* self.conn = self.pool.getconn() raises: the manager holds nothing and
\* the error leaves __enter__
GetconnRaised(p) ==
    /\ pc' = [pc EXCEPT ![p] = "done"]
    /\ result' = [result EXCEPT ![p] = "raised"]
    /\ exc' = [exc EXCEPT ![p] = "PoolError"]
    /\ steps' = Log(p, <<<<"getconn_raised", None>>>>)
    /\ UNCHANGED <<pool, used, autocommit, pending, db, kind, conn, issued,
                   committed, fault, retried, rows, ret, ctor>>

Finish(p, res, e, f) ==
    /\ pc' = [pc EXCEPT ![p] = "done"]
    /\ result' = [result EXCEPT ![p] = res]
    /\ exc' = [exc EXCEPT ![p] = e]
    /\ fault' = [fault EXCEPT ![p] = f]
    /\ retried' = [retried EXCEPT ![p] = FALSE]

\* ---------------------------------------------------------------- cursor
\* the rows waiting on the cursor after execute; the model follows them
\* where the facade reads them (fetchone, fetchall)
ExecuteResults(k) == IF k \in FetchKinds THEN ResultSets ELSE {<<>>}

\* an entry that opens a transaction around the statement
CursorExecutedInTransaction(p, c) ==
    /\ pool' = GetconnPool(pool, c)
    /\ used' = GetconnUsed(used, p, c)
    /\ conn' = [conn EXCEPT ![p] = c]
    /\ autocommit' = SetAutocommit(c, FALSE)
    /\ db' = db
    /\ pending' = [pending EXCEPT ![c] = @ \cup {<<p, 0>>}]
    /\ issued' = [issued EXCEPT ![p] = {<<p, 0>>}]
    /\ steps' = Log(p, <<<<"getconn", c>>, <<"autocommit_off", c>>,
                         <<"cursor", c>>, <<"execute", c>>>>)
    /\ pc' = [pc EXCEPT ![p] = "body"]
    /\ \E rs \in ExecuteResults(kind[p]) : rows' = [rows EXCEPT ![p] = rs]
    /\ UNCHANGED <<kind, committed, result, exc, fault, retried, ret, ctor>>

\* PostgresCursorContextManager.__enter__, execute succeeds: the cursor is
\* returned and the body runs
CursorExecuted(p, c) ==
    /\ pool' = GetconnPool(pool, c)
    /\ used' = GetconnUsed(used, p, c)
    /\ conn' = [conn EXCEPT ![p] = c]
    /\ db' = ExecuteDb(c, <<p, 0>>)
    /\ pending' = ExecutePending(c, <<p, 0>>)
    /\ issued' = [issued EXCEPT ![p] = {<<p, 0>>}]
    /\ steps' = Log(p, <<<<"getconn", c>>, <<"cursor", c>>, <<"execute", c>>>>)
    /\ pc' = [pc EXCEPT ![p] = "body"]
    /\ \E rs \in ExecuteResults(kind[p]) : rows' = [rows EXCEPT ![p] = rs]
    /\ UNCHANGED <<autocommit, kind, committed, result, exc, fault,
                   retried, ret, ctor>>

\* the except clause without its call of self.__exit__()
CursorExecuteFailedNoExit(p, c) ==
    /\ pool' = GetconnPool(pool, c)
    /\ used' = GetconnUsed(used, p, c)
    /\ conn' = [conn EXCEPT ![p] = c]
    /\ steps' = Log(p, <<<<"getconn", c>>, <<"cursor", c>>,
                         <<"execute_raised", c>>>>)
    /\ Finish(p, "raised", "StatementError", "StatementError")
    /\ UNCHANGED <<autocommit, pending, db, kind, issued, committed, rows,
                   ret, ctor>>

\* the except clause without its raise: __enter__ returns the cursor
CursorExecuteFailedNoRaise(p, c) ==
    /\ pool' = PutconnPool(GetconnPool(pool, c), c)
    /\ used' = PutconnUsed(GetconnUsed(used, p, c), c)
    /\ conn' = [conn EXCEPT ![p] = c]
    /\ steps' = Log(p, <<<<"getconn", c>>, <<"cursor", c>>,
                         <<"execute_raised", c>>, <<"putconn", c>>>>)
    /\ pc' = [pc EXCEPT ![p] = "body"]
    /\ UNCHANGED <<autocommit, pending, db, kind, issued, committed,
                   result, exc, fault, retried, rows, ret, ctor>>

\* PostgresCursorContextManager.__enter__, execute raises: the except
\* clause calls self.__exit__() (putconn) and re-raises
CursorExecuteFailed(p, c) ==
    /\ pool' = PutconnPool(GetconnPool(pool, c), c)
    /\ used' = PutconnUsed(GetconnUsed(used, p, c), c)
    /\ conn' = [conn EXCEPT ![p] = c]
    /\ steps' = Log(p, <<<<"getconn", c>>, <<"cursor", c>>,
                         <<"execute_raised", c>>, <<"putconn", c>>>>)
    /\ Finish(p, "raised", "StatementError", "StatementError")
    /\ UNCHANGED <<autocommit, pending, db, kind, issued, committed, rows,
                   ret, ctor>>

CursorEnter(p) ==
    /\ pc[p] = "created"
    /\ kind[p] \in CursorKinds
    /\ IF PoolExhausted
       THEN GetconnRaised(p)
       ELSE \E ok \in BOOLEAN :
               IF ok THEN CursorExecuted(p, PoolTop)
                     ELSE CursorExecuteFailed(p, PoolTop)

\* the body of Postgres.execute is pass: it cannot raise
BodyMayRaise(k) == IF k = "execute" THEN {FALSE} ELSE BOOLEAN

\* a fetchone that reads past the first row
FetchOneSkipsFirst(rs) == IF Len(rs) < 2 THEN None ELSE rs[2]

\* cursor.fetchone(): the next row, or None when there is none
FetchOne(rs) == IF rs = <<>> THEN None ELSE Head(rs)

\* what the body hands to the caller when it ends without error: fetchone
\* returns cursor.fetchone(); execute returns nothing; the rows of fetchall
\* have been yielded one by one before
BodyReturns(k, rs, r) == IF k = "fetchone" THEN <<FetchOne(rs)>> ELSE r

\* PostgresCursorContextManager.__exit__(*exc_info), reached when the body
\* ends (e = FALSE) or raises (e = TRUE); it returns None, so the body's
\* error goes on to the caller.  The loop of fetchall ends when the cursor
\* has no more rows.
CursorExit(p) ==
    /\ pc[p] = "body"
    /\ kind[p] \in CursorKinds
    /\ \E e \in BodyMayRaise(kind[p]) :
          /\ (kind[p] = "fetchall" /\ ~e) => rows[p] = <<>>
          /\ pool' = PutconnPool(pool, conn[p])
          /\ used' = PutconnUsed(used, conn[p])
          /\ steps' = Log(p, <<<<"putconn", conn[p]>>>>)
          /\ ret' = [ret EXCEPT ![p] =
                        IF e THEN @ ELSE BodyReturns(kind[p], rows[p], @)]
          /\ IF e THEN Finish(p, "raised", "BodyError", "BodyError")
                  ELSE Finish(p, "returned", "none", "none")
    /\ rows' = [rows EXCEPT ![p] = <<>>]
    /\ UNCHANGED <<autocommit, pending, db, kind, conn, issued, committed,
                   ctor>>

\* Postgres.fetchall is a generator: each next() of the caller runs the
\* loop up to the next yield
FetchallNext(p) ==
    /\ pc[p] = "body"
    /\ kind[p] = "fetchall"
    /\ rows[p] # <<>>
    /\ ret' = [ret EXCEPT ![p] = Append(@, Head(rows[p]))]
    /\ rows' = [rows EXCEPT ![p] = Tail(@)]
    /\ UNCHANGED <<pool, used, autocommit, pending, db, pc, kind, conn,
                   issued, committed, steps, result, exc, fault, retried,
                   ctor>>

\* a generator whose finalisation ends the scope without __exit__
FetchallCloseNoPutconn(p) ==
    /\ pc[p] = "body"
    /\ kind[p] = "fetchall"
    /\ ret[p] # <<>>
    /\ rows' = [rows EXCEPT ![p] = <<>>]
    /\ Finish(p, "closed", "none", "none")
    /\ UNCHANGED <<pool, used, steps, autocommit, pending, db, kind, conn,
                   issued, committed, ret, ctor>>

\* the caller drops the generator of fetchall while it is suspended at a
\* yield: closing it raises GeneratorExit at the yield, the with statement
\* calls __exit__, and the caller sees no error
FetchallClose(p) ==
    /\ pc[p] = "body"
    /\ kind[p] = "fetchall"
    /\ ret[p] # <<>>
    /\ pool' = PutconnPool(pool, conn[p])
    /\ used' = PutconnUsed(used, conn[p])
    /\ steps' = Log(p, <<<<"putconn", conn[p]>>>>)
    /\ rows' = [rows EXCEPT ![p] = <<>>]
    /\ Finish(p, "closed", "none", "none")
    /\ UNCHANGED <<autocommit, pending, db, kind, conn, issued, committed,
                   ret, ctor>>

\* ---------------------------------------------------------------- body
\* the caller runs one more statement on the cursor / connection it was
\* given (the bodies of execute, fetchone and fetchall run none)
BodyExecute(p) ==
    /\ pc[p] = "body"
    /\ kind[p] \in {"get_cursor", "get_transaction", "get_connection"}
    /\ LET n == Cardinality({t \in issued[p] : t[2] >= 1})
           t == <<p, n + 1>>
       IN  /\ n < MaxStmts
           /\ db' = ExecuteDb(conn[p], t)
           /\ pending' = ExecutePending(conn[p], t)
           /\ issued' = [issued EXCEPT ![p] = @ \cup {t}]
    /\ UNCHANGED <<pool, used, autocommit, pc, kind, conn, committed,
                   steps, result, exc, fault, retried, rows, ret, ctor>>

\* the caller of get_connection calls conn.commit() in the body
RawCommit(p) ==
    /\ pc[p] = "body"
    /\ kind[p] = "get_connection"
    /\ pending[conn[p]] # {}
    /\ db' = CommitDb(conn[p])
    /\ pending' = EndTransaction(conn[p])
    /\ committed' = [committed EXCEPT ![p] = @ \cup pending[conn[p]]]
    /\ UNCHANGED <<pool, used, autocommit, pc, kind, conn, issued, steps,
                   result, exc, fault, retried, rows, ret, ctor>>

\* ---------------------------------------------------------------- exits
\* the commit branch with putconn ahead of self.conn.autocommit = True
CommittedReleaseFirst(p, e) ==
    /\ db' = CommitDb(conn[p])
    /\ pending' = EndTransaction(conn[p])
    /\ autocommit' = SetAutocommit(conn[p], TRUE)
    /\ pool' = PutconnPool(pool, conn[p])
    /\ used' = PutconnUsed(used, conn[p])
    /\ steps' = Log(p, <<<<"commit", conn[p]>>, <<"putconn", conn[p]>>,
                         <<"autocommit_on", conn[p]>>>>)
    /\ IF e THEN Finish(p, "raised", "BodyError", "BodyError")
            ELSE Finish(p, "returned", "none", "none")
    /\ UNCHANGED <<kind, conn, issued, committed, rows, ret, ctor>>

\* self.conn.commit() succeeds; then autocommit = True and putconn
Committed(p, e) ==
    /\ db' = CommitDb(conn[p])
    /\ pending' = EndTransaction(conn[p])
    /\ autocommit' = SetAutocommit(conn[p], TRUE)
    /\ pool' = PutconnPool(pool, conn[p])
    /\ used' = PutconnUsed(used, conn[p])
    /\ steps' = Log(p, <<<<"commit", conn[p]>>, <<"autocommit_on", conn[p]>>,
                         <<"putconn", conn[p]>>>>)
    /\ IF e THEN Finish(p, "raised", "BodyError", "BodyError")
            ELSE Finish(p, "returned", "none", "none")
    /\ UNCHANGED <<kind, conn, issued, committed, rows, ret, ctor>>

\* self.conn.commit() raises: __exit__ ends there, the two lines after the
\* if/else are not reached
CommitRaised(p, e) ==
    /\ pending' = EndTransaction(conn[p])
    /\ steps' = Log(p, <<<<"commit_raised", conn[p]>>>>)
    /\ Finish(p, "raised", "CommitError", IF e THEN "BodyError" ELSE "none")
    /\ UNCHANGED <<pool, used, autocommit, db, kind, conn, issued, committed,
                   rows, ret, ctor>>

\* the rollback branch without self.conn.autocommit = True
RolledBackNoRestore(p, e) ==
    /\ pending' = EndTransaction(conn[p])
    /\ pool' = PutconnPool(pool, conn[p])
    /\ used' = PutconnUsed(used, conn[p])
    /\ steps' = Log(p, <<<<"rollback", conn[p]>>, <<"putconn", conn[p]>>>>)
    /\ IF e THEN Finish(p, "raised", "BodyError", "BodyError")
            ELSE Finish(p, "returned", "none", "none")
    /\ UNCHANGED <<autocommit, db, kind, conn, issued, committed, rows, ret,
                   ctor>>

\* self.conn.rollback() succeeds; then autocommit = True and putconn.
\* __exit__ returns None: an error of the body goes on to the caller
RolledBack(p, e) ==
    /\ pending' = EndTransaction(conn[p])
    /\ autocommit' = SetAutocommit(conn[p], TRUE)
    /\ pool' = PutconnPool(pool, conn[p])
    /\ used' = PutconnUsed(used, conn[p])
    /\ steps' = Log(p, <<<<"rollback", conn[p]>>, <<"autocommit_on", conn[p]>>,
                         <<"putconn", conn[p]>>>>)
    /\ IF e THEN Finish(p, "raised", "BodyError", "BodyError")
            ELSE Finish(p, "returned", "none", "none")
    /\ UNCHANGED <<db, kind, conn, issued, committed, rows, ret, ctor>>

\* self.conn.rollback() raises: __exit__ ends there, and the error of the
\* rollback replaces the one of the body
RollbackRaised(p, e) ==
    /\ pending' = EndTransaction(conn[p])
    /\ steps' = Log(p, <<<<"rollback_raised", conn[p]>>>>)
    /\ Finish(p, "raised", "RollbackError", IF e THEN "BodyError" ELSE "none")
    /\ UNCHANGED <<pool, used, autocommit, db, kind, conn, issued, committed,
                   rows, ret, ctor>>

Resolve(p, how, ok, e) ==
    IF how = "commit"
    THEN IF ok THEN Committed(p, e) ELSE CommitRaised(p, e)
    ELSE IF ok THEN RolledBack(p, e) ELSE RollbackRaised(p, e)

\* ---------------------------------------------------------------- transaction
\* PostgresTransactionContextManager.__enter__: the statement and the
\* parameters given to get_transaction are dropped by __init__, and the
\* with statement calls __enter__ without arguments, so no statement runs
TransactionEntered(p, c) ==
    /\ pool' = GetconnPool(pool, c)
    /\ used' = GetconnUsed(used, p, c)
    /\ conn' = [conn EXCEPT ![p] = c]
    /\ autocommit' = SetAutocommit(c, FALSE)
    /\ steps' = Log(p, <<<<"getconn", c>>, <<"autocommit_off", c>>,
                         <<"cursor", c>>>>)
    /\ pc' = [pc EXCEPT ![p] = "body"]
    /\ UNCHANGED <<pending, db, kind, issued, committed, result, exc,
                   fault, retried, rows, ret, ctor>>

TransactionEnter(p) ==
    /\ pc[p] = "created"
    /\ kind[p] = "get_transaction"
    /\ IF PoolExhausted
       THEN GetconnRaised(p)
       ELSE TransactionEntered(p, PoolTop)

\* if exc_info == (None, None, None): commit, else: rollback
TransactionResolveAlwaysCommit(e) == "commit"
TransactionResolve(e) == IF e THEN "rollback" ELSE "commit"

\* PostgresTransactionContextManager.__exit__(*exc_info)
TransactionExit(p) ==
    /\ pc[p] = "body"
    /\ kind[p] = "get_transaction"
    /\ \E e \in BOOLEAN : \E ok \in BOOLEAN :
          Resolve(p, TransactionResolve(e), ok, e)

\* ---------------------------------------------------------------- connection
\* PostgresConnectionContextManager.__enter__
ConnectionEntered(p, c) ==
    /\ pool' = GetconnPool(pool, c)
    /\ used' = GetconnUsed(used, p, c)
    /\ conn' = [conn EXCEPT ![p] = c]
    /\ autocommit' = SetAutocommit(c, FALSE)
    /\ steps' = Log(p, <<<<"getconn", c>>, <<"autocommit_off", c>>>>)
    /\ pc' = [pc EXCEPT ![p] = "body"]
    /\ UNCHANGED <<pending, db, kind, issued, committed, result, exc,
                   fault, retried, rows, ret, ctor>>

ConnectionEnter(p) ==
    /\ pc[p] = "created"
    /\ kind[p] = "get_connection"
    /\ IF PoolExhausted
       THEN GetconnRaised(p)
       ELSE ConnectionEntered(p, PoolTop)

\* self.conn.rollback(), whatever exc_info is
ConnectionResolveLikeTransaction(e) == IF e THEN "rollback" ELSE "commit"
ConnectionResolve(e) == "rollback"

\* PostgresConnectionContextManager.__exit__(*exc_info)
ConnectionExit(p) ==
    /\ pc[p] = "body"
    /\ kind[p] = "get_connection"
    /\ \E e \in BOOLEAN : \E ok \in BOOLEAN :
          Resolve(p, ConnectionResolve(e), ok, e)

\* ---------------------------------------------------------------- spec
Next ==
    \E p \in Callers :
        \/ \E k \in Kinds : Call(p, k)
        \/ CursorEnter(p)
        \/ CursorExit(p)
        \/ FetchallNext(p)
        \/ FetchallClose(p)
        \/ TransactionEnter(p)
        \/ TransactionExit(p)
        \/ ConnectionEnter(p)
        \/ ConnectionExit(p)
        \/ BodyExecute(p)
        \/ RawCommit(p)

Spec == Init /\ [][Next]_vars

\* A caller of fetchall either goes on iterating or lets go of the
\* generator; a generator that is let go of is closed when it is finalised.
FetchallProgress(p) ==
    kind[p] = "fetchall" /\ (FetchallNext(p) \/ CursorExit(p) \/ FetchallClose(p))

\* the facade used through its cursor scopes only
CursorNext ==
    \E p \in Callers :
        \/ \E k \in CursorKinds : Call(p, k)
        \/ CursorEnter(p)
        \/ CursorExit(p)
        \/ FetchallNext(p)
        \/ FetchallClose(p)
        \/ BodyExecute(p)

LiveSpec ==
    /\ Init
    /\ [][CursorNext]_vars
    /\ \A p \in Callers : WF_vars(FetchallProgress(p))

\* ---------------------------------------------------------------- claims
Count(p, name) == Cardinality({i \in DOMAIN steps[p] : steps[p][i][1] = name})
Has(p, name) == \E i \in DOMAIN steps[p] : steps[p][i][1] = name
Acquired(p) == Has(p, "getconn")
LastStep(p) == steps[p][Len(steps[p])]
Transactional == {"get_transaction", "get_connection"}

\* C1: every scope that acquired a connection releases that same connection
\* exactly once, never zero times and never twice, however the scope ends.
C1_ReleasedExactlyOnce ==
    \A p \in Callers :
        /\ Count(p, "putconn") <= Count(p, "getconn")
        /\ (pc[p] = "done" /\ Acquired(p)) =>
               /\ Count(p, "getconn") = 1
               /\ Count(p, "putconn") = 1
               /\ <<"putconn", conn[p]>> = LastStep(p)
               /\ <<p, conn[p]>> \notin used

\* C2: when the statement of a cursor manager (get_cursor, execute, fetchone,
\* fetchall) fails on entry, the manager has put the connection back before
\* the error reaches the caller, the error is raised to the caller, and the
\* pool holds and has handed out what it did before the call.
C2_ExecuteFailureReleases ==
    [][\A p \in Callers :
          (pc[p] = "created" /\ exc'[p] = "StatementError") =>
              /\ kind[p] \in CursorKinds
              /\ steps'[p] = <<<<"getconn", conn'[p]>>, <<"cursor", conn'[p]>>,
                               <<"execute_raised", conn'[p]>>,
                               <<"putconn", conn'[p]>>>>
              /\ result'[p] = "raised"
              /\ pc'[p] = "done"
              /\ used' = used
              /\ pool' = pool]_vars

\* two of the facade's calls failed in their statement, one after the other
C2_Witness ==
    \E p, q \in Callers :
        /\ kind[p] \in {"execute", "fetchone"}
        /\ kind[q] = "fetchall"
        /\ exc[p] = "StatementError" /\ exc[q] = "StatementError"
        /\ used = {}

\* C3: every connection the pool has available has autocommit on and no
\* open transaction, so a scope that never touches autocommit (a cursor
\* scope) always runs with autocommit on.
C3_IdleConnectionsAtRest ==
    /\ \A c \in Idle : autocommit[c] /\ pending[c] = {}
    /\ \A p \in Callers :
          (pc[p] = "body" /\ kind[p] \in CursorKinds) => autocommit[conn[p]]

\* a connection went through a transactional scope that failed after issuing
\* a statement, and was then handed to a cursor scope
C3_Witness ==
    \E p, q \in Callers :
        /\ kind[p] \in Transactional /\ exc[p] = "BodyError"
        /\ issued[p] # {}
        /\ pc[q] = "body" /\ kind[q] \in CursorKinds
        /\ conn[q] = conn[p]

\* C4 as stated: after a get_transaction scope whose body completed
\* normally the manager has called commit and every statement of the scope
\* is visible; after one whose body failed the manager has called rollback
\* and no statement of the scope is visible.
C4_Original ==
    \A p \in Callers :
        (kind[p] = "get_transaction" /\ pc[p] = "done" /\ Acquired(p)) =>
            IF fault[p] = "none"
            THEN /\ Has(p, "commit") \/ Has(p, "commit_raised")
                 /\ issued[p] \subseteq db
            ELSE /\ Has(p, "rollback") \/ Has(p, "rollback_raised")
                 /\ issued[p] \cap db = {}

\* C4 amended: after a clean body the manager calls commit, and the
\* statements of the scope are all visible when that commit succeeds and
\* none is when it raises; after a failed body the manager calls rollback
\* and none is visible.
C4_CommitOrRollback ==
    \A p \in Callers :
        (kind[p] = "get_transaction" /\ pc[p] = "done" /\ Acquired(p)) =>
            IF fault[p] = "none"
            THEN /\ Has(p, "commit") \/ Has(p, "commit_raised")
                 /\ ~Has(p, "rollback") /\ ~Has(p, "rollback_raised")
                 /\ Has(p, "commit") => issued[p] \subseteq db
                 /\ Has(p, "commit_raised") => issued[p] \cap db = {}
            ELSE /\ Has(p, "rollback") \/ Has(p, "rollback_raised")
                 /\ ~Has(p, "commit") /\ ~Has(p, "commit_raised")
                 /\ issued[p] \cap db = {}

\* one transaction committed its statements, another failed and lost them
C4_Witness ==
    \E p, q \in Callers :
        /\ kind[p] = "get_transaction" /\ kind[q] = "get_transaction"
        /\ pc[p] = "done" /\ result[p] = "returned"
        /\ issued[p] # {} /\ issued[p] \subseteq db
        /\ pc[q] = "done" /\ exc[q] = "BodyError"
        /\ issued[q] # {} /\ issued[q] \cap db = {}

\* C5: the raw-connection manager never calls commit; of the statements of
\* a get_connection scope exactly those the caller committed inside the
\* scope are visible, during the scope and after any exit, and after the
\* exit none of the others is left in an open transaction.
C5_RawNeverCommits ==
    \A p \in Callers :
        kind[p] = "get_connection" =>
            /\ ~Has(p, "commit") /\ ~Has(p, "commit_raised")
            /\ issued[p] \cap db = committed[p]
            /\ pc[p] = "done" =>
                  \A c \in PoolConns : issued[p] \cap pending[c] = {}

\* one raw scope committed its statement and then failed, another issued a
\* statement, did not commit it and ended normally
C5_Witness ==
    \E p, q \in Callers :
        /\ kind[p] = "get_connection" /\ pc[p] = "done"
        /\ exc[p] = "BodyError"
        /\ committed[p] # {} /\ committed[p] \subseteq db
        /\ kind[q] = "get_connection" /\ pc[q] = "done"
        /\ result[q] = "returned"
        /\ issued[q] # {} /\ issued[q] \cap db = {}

C7_ExclusiveOwnership ==
    /\ Idle \cap CheckedOut = {}
    /\ Idle \cup CheckedOut = PoolConns
    /\ Len(pool) = Cardinality(Idle)
    /\ Cardinality(used) = Cardinality(CheckedOut)
    /\ \A p \in Callers : pc[p] = "body" => <<p, conn[p]>> \in used
    /\ \A p, q \in Callers :
          (p # q /\ pc[p] = "body" /\ pc[q] = "body") => conn[p] # conn[q]

\* a scope runs on the connection that another scope gave back when its
\* statement failed
C7_Witness ==
    \E p, q \in Callers :
        /\ pc[p] = "body"
        /\ pc[q] = "done" /\ exc[q] = "StatementError"
        /\ conn[q] = conn[p]

\* C8: a scope that fails (in its statement or in its body) leaves the
\* number of connections of the pool and every autocommit flag as they were
\* before it began: its own connection has autocommit on again, no other
\* flag moved.
C8_FailureLeavesPoolAsBefore ==
    [][\A p \in Callers :
          (pc[p] # "done" /\ pc'[p] = "done" /\ fault'[p] # "none") =>
              /\ Len(pool') + Cardinality(used') = Len(pool) + Cardinality(used)
              /\ autocommit'[conn'[p]]
              /\ \A c \in PoolConns \ {conn'[p]} :
                    autocommit'[c] = autocommit[c]]_vars

\* C9: a failure of the statement or of the body reaches the caller as it
\* is, after the manager has cleaned up: rollback in the transactional
\* managers, then putconn.
C9_FailureReachesCaller ==
    \A p \in Callers :
        (pc[p] = "done" /\ fault[p] # "none") =>
            /\ result[p] = "raised"
            /\ exc[p] = fault[p]
            /\ LastStep(p) = <<"putconn", conn[p]>>
            /\ kind[p] \in Transactional =>
                  steps[p][Len(steps[p]) - 2] = <<"rollback", conn[p]>>

\* C10 as stated: no caller fails merely because the pool was saturated.
C10_Original ==
    \A p \in Callers : exc[p] # "PoolError"

\* C10 amended: on a saturated pool the acquire of a scope does not block,
\* it fails at once with PoolError and leaves pool and manager untouched;
\* whenever a connection is available the acquire is served, so a caller
\* who calls again after a release gets a connection.
C10_SaturatedAcquireFails ==
    [][\A p \in Callers :
          (pc[p] = "created" /\ pc'[p] # "created") =>
              IF pool = <<>>
              THEN /\ exc'[p] = "PoolError" /\ result'[p] = "raised"
                   /\ pool' = pool /\ used' = used
                   /\ conn'[p] = None
              ELSE /\ exc'[p] # "PoolError"
                   /\ steps'[p][1] = <<"getconn", pool[Len(pool)]>>
                   /\ conn'[p] = pool[Len(pool)]]_vars

\* a caller the pool turned away called again and runs on the connection
\* another scope has released
C10_Witness ==
    \E p, q \in Callers :
        /\ retried[p] /\ pc[p] = "body"
        /\ pc[q] = "done" /\ conn[q] = conn[p] /\ Has(q, "putconn")

C12_BothFormsAccepted ==
    (ctor.phase # "args" /\ ctor.reachable) =>
        /\ ctor.phase = "built"
        /\ ctor.error = "none"
        /\ IF ctor.url = MakeUrl(ctor.given)
           THEN ctor.dsn = url_to_dsn(ctor.url)
           ELSE ctor.dsn = ctor.url
        /\ Len(pool) = ctor.minconn

\* C13: constructing the facade (from a URL, server reachable) with
\* minconn > maxconn raises ConfigurationError and leaves no pool and no
\* connection; with minconn <= maxconn it succeeds, the pool then has
\* between minconn and maxconn live connections and none is checked out.
C13_PoolSizesValidated ==
    (ctor.phase # "args" /\ ctor.reachable
         /\ ctor.url = MakeUrl(ctor.given)) =>
        IF ctor.minconn > ctor.maxconn
        THEN /\ ctor.phase = "raised"
             /\ ctor.error = "ConfigurationError"
             /\ pool = <<>> /\ used = {}
        ELSE /\ ctor.phase = "built"
             /\ ctor.minconn <= Len(pool) + Cardinality(used)
             /\ Len(pool) + Cardinality(used) <= ctor.maxconn
             /\ used = {}

\* C14: the connection string url_to_dsn makes of a postgres:// URL names
\* the database, the user, the password, the host and the port of the URL;
\* the port is 5432 when the URL has none, and there is no password in it
\* when the URL has none.
C14_UrlToDsnFields ==
    (ctor.phase # "args" /\ ctor.url = MakeUrl(ctor.given)) =>
        LET g == ctor.given
            d == ctor.dsn
        IN  /\ DsnGet(d, "dbname=") = g.dbname
            /\ g.user # PyNone => DsnGet(d, "user=") = g.user
            /\ Lower(DsnGet(d, "host=")) = Lower(g.host)
            /\ DsnGet(d, "port=") = IF g.port = PyNone THEN "5432" ELSE g.port
            /\ IF g.password = PyNone
               THEN ~DsnHas(d, "password=")
               ELSE DsnGet(d, "password=") = g.password

\* C15: when fetchone returns, the value handed to the caller is the first
\* row of the statement's result, or None when the result has no rows, and
\* whenever the caller has that value the connection has been put back: the
\* scope's last step is putconn and its key is no longer checked out.
C15_FetchoneFirstRowOrNone ==
    /\ [](\A p \in Callers :
             (kind[p] = "fetchone" /\ ret[p] # <<>>) =>
                 /\ pc[p] = "done" /\ result[p] = "returned"
                 /\ exc[p] = "none"
                 /\ LastStep(p) = <<"putconn", conn[p]>>
                 /\ <<p, conn[p]>> \notin used)
    /\ [][\A p \in Callers :
             (kind[p] = "fetchone" /\ pc[p] = "body"
                  /\ result'[p] = "returned") =>
                 /\ Len(ret'[p]) = 1
                 /\ ret'[p][1] = IF rows[p] = <<>> THEN None ELSE rows[p][1]
                 /\ conn[p] \in {pool'[i] : i \in DOMAIN pool'}]_vars

\* one fetchone found no row and returned None, another returned the
\* first row; both connections are back
C15_Witness ==
    \E p, q \in Callers :
        /\ kind[p] = "fetchone" /\ result[p] = "returned"
        /\ ret[p] = <<None>>
        /\ kind[q] = "fetchone" /\ result[q] = "returned"
        /\ ret[q] = <<1>>
        /\ used = {}

\* C16: when the commit or the rollback of the exit of a get_transaction
\* or get_connection scope raises, the manager has still set autocommit
\* back to true and put the connection back by the time the error reaches
\* the caller.
C16_ReleasedWhenResolveFails ==
    \A p \in Callers :
        (pc[p] = "done"
             /\ (Has(p, "commit_raised") \/ Has(p, "rollback_raised"))) =>
            /\ Has(p, "autocommit_on")
            /\ Has(p, "putconn")
            /\ <<p, conn[p]>> \notin used
            /\ conn[p] \in Idle => autocommit[conn[p]]

\* C17: in the exit of a get_transaction or get_connection scope the
\* manager first resolves the transaction, then sets autocommit to true,
\* then releases, all on the connection it acquired: a putconn comes
\* directly after the autocommit restore, the restore directly after a
\* commit or rollback that succeeded, and a commit or rollback that
\* succeeded is followed by both.
C17_ResolveRestoreRelease ==
    \A p \in Callers :
        kind[p] \in Transactional =>
            \A i \in DOMAIN steps[p] :
                /\ steps[p][i][2] = conn[p]
                /\ steps[p][i][1] = "putconn" =>
                       /\ i > 1
                       /\ steps[p][i - 1] = <<"autocommit_on", conn[p]>>
                /\ steps[p][i][1] = "autocommit_on" =>
                       /\ i > 1
                       /\ steps[p][i - 1][1] \in {"commit", "rollback"}
                       /\ steps[p][i - 1][2] = conn[p]
                /\ steps[p][i][1] \in {"commit", "rollback"} =>
                       /\ i + 2 = Len(steps[p])
                       /\ steps[p][i + 1] = <<"autocommit_on", conn[p]>>
                       /\ steps[p][i + 2] = <<"putconn", conn[p]>>

\* a transaction committed and a raw-connection scope rolled back, each
\* followed by the restore and the release
C17_Witness ==
    \E p, q \in Callers :
        /\ kind[p] = "get_transaction" /\ pc[p] = "done"
        /\ Has(p, "commit") /\ LastStep(p) = <<"putconn", conn[p]>>
        /\ kind[q] = "get_connection" /\ pc[q] = "done"
        /\ Has(q, "rollback") /\ LastStep(q) = <<"putconn", conn[q]>>

\* C18: a get_transaction scope that has been entered has executed the
\* statement it was created with, inside its transaction: the statement is
\* among those the scope issued, it is pending while the body runs, visible
\* after a clean exit that committed and not visible after a failure.
C18_TransactionRunsStatement ==
    \A p \in Callers :
        (kind[p] = "get_transaction" /\ Acquired(p)) =>
            /\ Has(p, "execute")
            /\ <<p, 0>> \in issued[p]
            /\ pc[p] = "body" => <<p, 0>> \in pending[conn[p]]
            /\ (pc[p] = "done" /\ Has(p, "commit")) => <<p, 0>> \in db
            /\ (pc[p] = "done" /\ ~Has(p, "commit")) => <<p, 0>> \notin db

\* C19: a cursor scope (get_cursor, execute, fetchone, fetchall) never sets
\* autocommit and never commits or rolls back: its steps are getconn,
\* cursor, execute and putconn only, no step of it changes any autocommit
\* flag or takes a statement out of the database, its connection has
\* autocommit on while the body runs, and the statement that executed on
\* entry is in effect from then on, also after the body failed.
C19_CursorScopeLeavesTransactionState ==
    /\ [](\A p \in Callers :
             kind[p] \in CursorKinds =>
                 /\ \A i \in DOMAIN steps[p] :
                       steps[p][i][1] \in {"getconn", "getconn_raised",
                                           "cursor", "execute",
                                           "execute_raised", "putconn"}
                 /\ pc[p] = "body" => autocommit[conn[p]]
                 /\ Has(p, "execute") =>
                       /\ <<p, 0>> \in db
                       /\ \A c \in PoolConns : <<p, 0>> \notin pending[c])
    /\ [][\A p \in Callers :
             (kind'[p] \in CursorKinds /\ steps'[p] # steps[p]) =>
                 /\ autocommit' = autocommit
                 /\ db \subseteq db'
                 /\ \A c \in PoolConns : pending'[c] \subseteq pending[c]]_vars

\* a cursor scope executed its statement, its body failed, and the
\* statement is in effect on a connection that is back with autocommit on
C19_Witness ==
    \E p \in Callers :
        /\ kind[p] \in CursorKinds
        /\ pc[p] = "done" /\ exc[p] = "BodyError"
        /\ Has(p, "execute") /\ <<p, 0>> \in db
        /\ conn[p] \in Idle /\ autocommit[conn[p]]

\* C20: when getconn raises on entry of a scope of any kind, the only
\* thing the manager has done is the failed getconn: it holds no
\* connection, the pool's available list and checked-out set, every
\* autocommit flag and the database are as before; and when the caller
\* tries again while a connection is available, the entry gets it.
C20_AcquireFailureLeavesNothing ==
    [][\A p \in Callers :
          /\ (pc[p] = "created" /\ exc'[p] = "PoolError") =>
                 /\ steps'[p] = <<<<"getconn_raised", None>>>>
                 /\ conn'[p] = None
                 /\ \A c \in PoolConns : <<p, c>> \notin used'
                 /\ pool' = pool /\ used' = used
                 /\ autocommit' = autocommit
                 /\ pending' = pending /\ db' = db
                 /\ pc'[p] = "done" /\ result'[p] = "raised"
          /\ (retried[p] /\ pc[p] = "created" /\ pc'[p] # "created"
                  /\ pool # <<>>) =>
                 /\ exc'[p] # "PoolError"
                 /\ conn'[p] \in Idle
                 /\ <<p, conn'[p]>> \in used' \/ exc'[p] = "StatementError"]_vars

\* the pool turned away a transaction or raw-connection scope; its caller
\* tried again after another scope had released and now runs on that
\* connection
C20_Witness ==
    \E p, q \in Callers :
        /\ kind[p] \in Transactional
        /\ retried[p] /\ pc[p] = "body"
        /\ steps[p][1] = <<"getconn", conn[p]>>
        /\ pc[q] = "done" /\ LastStep(q) = <<"putconn", conn[p]>>

====
